---- MODULE Spec2Model ----
(***************************************************************************)
(* GiftFlow mock API (src/main.py): three in-memory tables (MOCK_USERS,    *)
(* MOCK_TOKENS, MOCK_EVENTS) and the routes signup, login, me,             *)
(* list_events and create_event.                                           *)
(*                                                                         *)
(* The app serves requests concurrently and takes no lock.  The            *)
(* dependency current_user is "async def" and never awaits: it runs on     *)
(* the event-loop thread, one request at a time.  The route functions are  *)
(* plain "def": each call runs on a worker thread of its own.  All these   *)
(* threads interleave, so a request is a sequence of steps, one per read   *)
(* or write of a table.                                                    *)
(*                                                                         *)
(* Python values are modelled as follows: str is a TLA+ string; an         *)
(* Optional[T] is the empty tuple (None) or a one-element tuple <<v>>;     *)
(* a dict keyed by email is a function; the insertion-ordered dict         *)
(* MOCK_TOKENS is a sequence of [token, email] entries with distinct       *)
(* tokens; a list is a sequence; a JSON request body is a record holding   *)
(* only the keys the client sent.                                          *)
(***************************************************************************)
EXTENDS Integers, Sequences, FiniteSets, TLC

VARIABLES
  MOCK_USERS,   \* email -> user record
  MOCK_TOKENS,  \* token -> email, in insertion order
  MOCK_EVENTS,  \* the event list
  thread,       \* the requests in flight, each with the locals of its call
  resp,         \* the last response sent, and the request it answers
  issued,       \* every AuthResponse a client has received so far
  started       \* the number of requests received so far

vars == <<MOCK_USERS, MOCK_TOKENS, MOCK_EVENTS, thread, resp, issued, started>>

tables == <<MOCK_USERS, MOCK_TOKENS, MOCK_EVENTS>>

-----------------------------------------------------------------------------
(* Bounds of the model. *)

MaxRequests == 3

-----------------------------------------------------------------------------
(* Python values. *)

None == << >>

Some(v) == <<v>>

IsNone(o) == o = << >>

Digit(d) ==
  CASE d = 0 -> "0" [] d = 1 -> "1" [] d = 2 -> "2" [] d = 3 -> "3"
    [] d = 4 -> "4" [] d = 5 -> "5" [] d = 6 -> "6" [] d = 7 -> "7"
    [] d = 8 -> "8" [] d = 9 -> "9"

RECURSIVE IntToStr(_)
IntToStr(n) == IF n < 10 THEN Digit(n) ELSE IntToStr(n \div 10) \o Digit(n % 10)

RECURSIVE StrReplace(_, _, _)
StrReplace(s, old, new) ==
  IF Len(s) < Len(old) THEN s
  ELSE IF SubSeq(s, 1, Len(old)) = old
       THEN new \o StrReplace(SubSeq(s, Len(old) + 1, Len(s)), old, new)
       ELSE SubSeq(s, 1, 1) \o StrReplace(SubSeq(s, 2, Len(s)), old, new)

-----------------------------------------------------------------------------
(* Seed data. *)

DemoEmail == "demo@giftflow.app"

SeedUsers ==
  DemoEmail :> [name |-> "Demo User", email |-> DemoEmail,
                password |-> "demo123", id |-> "u_demo_1"]

SeedTokens == << >>

SeedEvents ==
  << [id |-> "evt_1", name |-> "Holiday Gift Swap", event_type |-> Some("Secret Santa"),
      date |-> "2025-12-15", budget |-> Some(40),
      participants |-> <<"Alice", "Bob", "Charlie">>, ownerId |-> "u_demo_1",
      status |-> "draft", allow_wishlists |-> Some(TRUE),
      collect_addresses |-> Some(FALSE),
      custom_message |-> Some("Welcome to our annual swap!")] >>

-----------------------------------------------------------------------------
(* The insertion-ordered dict MOCK_TOKENS. *)

TokenKeys(d) == {d[i].token : i \in 1..Len(d)}

TokensGet(d, k) ==
  IF \E i \in 1..Len(d) : d[i].token = k
  THEN Some(d[CHOOSE i \in 1..Len(d) : d[i].token = k].email)
  ELSE None

TokensSet(d, k, v) ==
  IF \E i \in 1..Len(d) : d[i].token = k
  THEN [i \in 1..Len(d) |-> IF d[i].token = k THEN [token |-> k, email |-> v] ELSE d[i]]
  ELSE Append(d, [token |-> k, email |-> v])

-----------------------------------------------------------------------------
(* Responses. *)

HTTPException(status, detail) == [ok |-> FALSE, status |-> status, detail |-> detail]

Ok(value) == [ok |-> TRUE, status |-> 200, value |-> value]

\* An exception no handler catches: the framework answers 500.
ServerError(exception) == [ok |-> FALSE, status |-> 500, detail |-> exception]

-----------------------------------------------------------------------------
(* Helpers: token -> email -> user record, and the Authorization header. *)

BearerToken(authorization) == StrReplace(authorization, "Bearer ", "")

\* lines 105-107 and 96-98: the header is checked and the token looked up.
TokenEmail(tokens, authorization) ==
  IF IsNone(authorization) \/ authorization[1] = ""
  THEN HTTPException(401, "Missing Authorization header")
  ELSE LET email == TokensGet(tokens, BearerToken(authorization[1])) IN
         IF IsNone(email) \/ email[1] = ""
         THEN HTTPException(401, "Invalid token")
         ELSE Ok(email[1])

\* lines 99-102: the email is looked up.
EmailUser(users, email) ==
  IF email \notin DOMAIN users
  THEN HTTPException(401, "User not found")
  ELSE Ok(users[email])

-----------------------------------------------------------------------------
(* Auth routes: the values they compute. *)

EmailInUse(users, email) == email \in DOMAIN users

\* Mutant: the "+1" is dropped.
NewUserId_NoPlus(users) == "u_" \o IntToStr(Cardinality(DOMAIN users))

NewUserId(users) == "u_" \o IntToStr(Cardinality(DOMAIN users) + 1)

NewUser(payload, user_id) ==
  [name |-> payload.name, email |-> payload.email,
   password |-> payload.password, id |-> user_id]

MintToken(user_id) == "mocktoken_" \o user_id

AuthResponse(token, name, email, userId) ==
  [token |-> token, name |-> name, email |-> email, userId |-> userId]

\* Mutant: the password comparison is dropped.
CredentialsOk_NoPassword(users, payload) == payload.email \in DOMAIN users

CredentialsOk(users, payload) ==
  /\ payload.email \in DOMAIN users
  /\ users[payload.email].password = payload.password

LoginToken(existing_token, user) ==
  IF IsNone(existing_token) \/ existing_token[1] = ""
  THEN MintToken(user.id)
  ELSE existing_token[1]

MeBody(user) == [name |-> user.name, email |-> user.email, userId |-> user.id]

-----------------------------------------------------------------------------
(* Event routes: the values they compute. *)

Field(r, f, default) == IF f \in DOMAIN r THEN r[f] ELSE default

EventCreate(body) ==
  [name |-> body.name,
   date |-> body.date,
   budget |-> Field(body, "budget", None),
   participants |-> Field(body, "participants", << >>),
   event_type |-> Field(body, "event_type", Some("Secret Santa")),
   allow_wishlists |-> Field(body, "allow_wishlists", Some(TRUE)),
   collect_addresses |-> Field(body, "collect_addresses", Some(FALSE)),
   custom_message |-> Field(body, "custom_message", None)]

Event(e) ==
  [id |-> e.id,
   name |-> e.name,
   date |-> e.date,
   budget |-> Field(e, "budget", None),
   participants |-> Field(e, "participants", << >>),
   ownerId |-> e.ownerId,
   status |-> Field(e, "status", "draft"),
   event_type |-> Field(e, "event_type", Some("Secret Santa")),
   allow_wishlists |-> Field(e, "allow_wishlists", Some(TRUE)),
   collect_addresses |-> Field(e, "collect_addresses", Some(FALSE)),
   custom_message |-> Field(e, "custom_message", None)]

\* Mutant: the ownership filter is dropped.
IsOwner_Any(e, user) == TRUE

\* line 176: e.get("ownerId") == user["id"]
IsOwner(e, user) == Field(e, "ownerId", None) = user.id

NewEventId(events) == "evt_" \o IntToStr(Len(events) + 1)

\* Mutant: null optional fields are stored as they come.
NewEvent_Raw(payload, user, new_id) ==
  Event([id |-> new_id, name |-> payload.name, date |-> payload.date,
         budget |-> payload.budget, participants |-> payload.participants,
         ownerId |-> user.id, status |-> "draft", event_type |-> payload.event_type,
         allow_wishlists |-> payload.allow_wishlists,
         collect_addresses |-> payload.collect_addresses,
         custom_message |-> payload.custom_message])

NewEvent(payload, user, new_id) ==
  Event([id |-> new_id,
         name |-> payload.name,
         date |-> payload.date,
         budget |-> payload.budget,
         participants |-> payload.participants,
         ownerId |-> user.id,
         status |-> "draft",
         event_type |-> IF IsNone(payload.event_type) \/ payload.event_type[1] = ""
                        THEN Some("Secret Santa") ELSE payload.event_type,
         allow_wishlists |-> IF IsNone(payload.allow_wishlists)
                             THEN Some(TRUE) ELSE payload.allow_wishlists,
         collect_addresses |-> IF IsNone(payload.collect_addresses)
                               THEN Some(FALSE) ELSE payload.collect_addresses,
         custom_message |-> payload.custom_message])

-----------------------------------------------------------------------------
(* Requests the clients send. *)

SignupPayloads ==
  { [name |-> "A", email |-> "a@x.com", password |-> "p"],
    [name |-> "B", email |-> "b@x.com", password |-> "q"] }

LoginPayloads ==
  { [email |-> DemoEmail, password |-> "demo123"],
    [email |-> DemoEmail, password |-> "p"],
    [email |-> "a@x.com", password |-> "p"] }

Headers ==
  { None, Some("Bearer mocktoken_u_demo_1"), Some("Bearer mocktoken_u_2"),
    Some("Bearer mocktoken_u_3"), Some("mocktoken_Bearer u_2") }

EventBodies ==
  { [name |-> "Trip", date |-> "2025-01-01"],
    [name |-> "Party", date |-> "soon", budget |-> Some(25),
     participants |-> <<"Al", "Bo">>, event_type |-> None,
     allow_wishlists |-> Some(FALSE), collect_addresses |-> None,
     custom_message |-> Some("hi"), status |-> "active", ownerId |-> "u_demo_1",
     id |-> "evt_1"] }

-----------------------------------------------------------------------------
(* Requests in flight.  The pool has more worker threads than the model     *)
(* has requests, so every request finds a thread.  A request in flight     *)
(* holds the locals of its call: the request, the email and the user       *)
(* record the dependency fetched, the id the route computed, the state of  *)
(* login's dict iterator (the size of MOCK_TOKENS when the iterator was    *)
(* made, and its position) and of list_events' list iterator (its          *)
(* position, and the events collected so far).                             *)

Threads == 1..MaxRequests

Idle == [pc |-> "idle"]

Call(pc, req) ==
  [pc |-> pc, req |-> req, op |-> "", email |-> "", user |-> None, id |-> "",
   used |-> 0, pos |-> 0, found |-> None, owned |-> << >>]

At(t, pc) == thread[t].pc = pc

\* The event-loop thread runs one dependency at a time.
LoopFree == \A u \in Threads : thread[u].pc # "get_user"

\* The route function the dependency's user is passed to.
Route(op) ==
  CASE op = "me" -> "me_body"
    [] op = "list_events" -> "list_events_next"
    [] op = "create_event" -> "create_event_size"

\* A request is received: it is the next one, and goes to the first idle thread.
Receive(t) ==
  /\ started < MaxRequests
  /\ thread[t] = Idle
  /\ \A u \in Threads : u < t => thread[u] # Idle
  /\ started' = started + 1

Goto(t, call) == thread' = [thread EXCEPT ![t] = call]

Respond(op, req, result) ==
  resp' = [n |-> resp.n + 1, op |-> op, req |-> req, result |-> result]

-----------------------------------------------------------------------------
(* POST /api/auth/signup *)

\* line 139-140: the existence check.
signup(t, payload) ==
  /\ Receive(t)
  /\ IF EmailInUse(MOCK_USERS, payload.email)
     THEN /\ Respond("signup", payload, HTTPException(400, "Email already in use"))
          /\ UNCHANGED thread
     ELSE /\ Goto(t, Call("signup_size", payload))
          /\ UNCHANGED resp
  /\ UNCHANGED <<tables, issued>>

\* line 141: the size read.
signup_size(t) ==
  /\ At(t, "signup_size")
  /\ Goto(t, [thread[t] EXCEPT !.pc = "signup_put_user", !.id = NewUserId(MOCK_USERS)])
  /\ UNCHANGED <<tables, resp, issued, started>>

\* lines 142-147: the user insert.
signup_put_user(t) ==
  /\ At(t, "signup_put_user")
  /\ MOCK_USERS' = (thread[t].req.email :> NewUser(thread[t].req, thread[t].id))
                     @@ MOCK_USERS
  /\ Goto(t, [thread[t] EXCEPT !.pc = "signup_put_token"])
  /\ UNCHANGED <<MOCK_TOKENS, MOCK_EVENTS, resp, issued, started>>

\* lines 148-150: the token insert, and the response.
signup_put_token(t) ==
  /\ At(t, "signup_put_token")
  /\ LET payload == thread[t].req
         token == MintToken(thread[t].id)
         out == AuthResponse(token, payload.name, payload.email, thread[t].id)
     IN /\ MOCK_TOKENS' = TokensSet(MOCK_TOKENS, token, payload.email)
        /\ Respond("signup", payload, Ok(out))
        /\ issued' = issued \cup {out}
  /\ Goto(t, Idle)
  /\ UNCHANGED <<MOCK_USERS, MOCK_EVENTS, started>>

-----------------------------------------------------------------------------
(* POST /api/auth/login *)

\* lines 154-156: the credentials check.
login(t, payload) ==
  /\ Receive(t)
  /\ IF ~CredentialsOk(MOCK_USERS, payload)
     THEN /\ Respond("login", payload, HTTPException(401, "Invalid email or password"))
          /\ UNCHANGED thread
     ELSE /\ Goto(t, [Call("login_iter", payload) EXCEPT
                          !.user = MOCK_USERS[payload.email]])
          /\ UNCHANGED resp
  /\ UNCHANGED <<tables, issued>>

\* line 159: MOCK_TOKENS.items() is iterated; the iterator notes the size.
login_iter(t) ==
  /\ At(t, "login_iter")
  /\ Goto(t, [thread[t] EXCEPT !.pc = "login_next", !.used = Len(MOCK_TOKENS)])
  /\ UNCHANGED <<tables, resp, issued, started>>

\* lines 159-162: the iterator is asked for the next item.  It raises
\* RuntimeError when the dict has changed size since line 159; it stops after
\* the last entry; otherwise the loop body compares the entry's email.
login_next(t) ==
  /\ At(t, "login_next")
  /\ IF Len(MOCK_TOKENS) # thread[t].used
     THEN /\ Respond("login", thread[t].req,
                     ServerError("RuntimeError: dictionary changed size during iteration"))
          /\ Goto(t, Idle)
     ELSE /\ IF thread[t].pos >= Len(MOCK_TOKENS)
             THEN Goto(t, [thread[t] EXCEPT !.pc = "login_put"])
             ELSE LET entry == MOCK_TOKENS[thread[t].pos + 1] IN
                    IF entry.email = thread[t].req.email
                    THEN Goto(t, [thread[t] EXCEPT !.pc = "login_put",
                                                   !.found = Some(entry.token)])
                    ELSE Goto(t, [thread[t] EXCEPT !.pos = thread[t].pos + 1])
          /\ UNCHANGED resp
  /\ UNCHANGED <<tables, issued, started>>

\* lines 163-165: the token is chosen and written, and the response sent.
login_put(t) ==
  /\ At(t, "login_put")
  /\ LET user == thread[t].user
         token == LoginToken(thread[t].found, user)
         out == AuthResponse(token, user.name, user.email, user.id)
     IN /\ MOCK_TOKENS' = TokensSet(MOCK_TOKENS, token, thread[t].req.email)
        /\ Respond("login", thread[t].req, Ok(out))
        /\ issued' = issued \cup {out}
  /\ Goto(t, Idle)
  /\ UNCHANGED <<MOCK_USERS, MOCK_EVENTS, started>>

-----------------------------------------------------------------------------
(* The identity-scoped routes.  The dependency runs first, on the          *)
(* event-loop thread: it reads MOCK_TOKENS (line 96), then MOCK_USERS      *)
(* (line 99).  Only when it returns a user is the route function called,   *)
(* on a worker thread, with that user record.                              *)

\* GET /api/me: the dependency up to the token lookup (lines 105-107, 96-98).
me(t, authorization) ==
  LET email == TokenEmail(MOCK_TOKENS, authorization) IN
    /\ Receive(t)
    /\ LoopFree
    /\ IF email.ok
       THEN /\ Goto(t, [Call("get_user", authorization) EXCEPT
                          !.op = "me", !.email = email.value])
            /\ UNCHANGED resp
       ELSE /\ Respond("me", authorization, email)
            /\ UNCHANGED thread
    /\ UNCHANGED <<tables, issued>>

\* GET /api/events: the dependency up to the token lookup.
list_events(t, authorization) ==
  LET email == TokenEmail(MOCK_TOKENS, authorization) IN
    /\ Receive(t)
    /\ LoopFree
    /\ IF email.ok
       THEN /\ Goto(t, [Call("get_user", authorization) EXCEPT
                          !.op = "list_events", !.email = email.value])
            /\ UNCHANGED resp
       ELSE /\ Respond("list_events", authorization, email)
            /\ UNCHANGED thread
    /\ UNCHANGED <<tables, issued>>

\* POST /api/events: the dependency up to the token lookup.
create_event(t, authorization, body) ==
  LET email == TokenEmail(MOCK_TOKENS, authorization)
      req == [authorization |-> authorization, body |-> body]
  IN /\ Receive(t)
     /\ LoopFree
     /\ IF email.ok
        THEN /\ Goto(t, [Call("get_user", req) EXCEPT
                           !.op = "create_event", !.email = email.value])
             /\ UNCHANGED resp
        ELSE /\ Respond("create_event", req, email)
             /\ UNCHANGED thread
     /\ UNCHANGED <<tables, issued>>

\* lines 99-102 and 108: the user lookup; the route function is called with
\* the record.
get_user(t) ==
  LET user == EmailUser(MOCK_USERS, thread[t].email) IN
    /\ At(t, "get_user")
    /\ IF user.ok
       THEN /\ Goto(t, [thread[t] EXCEPT !.pc = Route(thread[t].op),
                                         !.user = user.value])
            /\ UNCHANGED resp
       ELSE /\ Respond(thread[t].op, thread[t].req, user)
            /\ Goto(t, Idle)
    /\ UNCHANGED <<tables, issued, started>>

\* line 169
me_body(t) ==
  /\ At(t, "me_body")
  /\ Respond("me", thread[t].req, Ok(MeBody(thread[t].user)))
  /\ Goto(t, Idle)
  /\ UNCHANGED <<tables, issued, started>>

\* lines 176-177: the list iterator is asked for the next element.  It stops
\* when its position has reached the length the list has now; otherwise the
\* element is kept if the caller owns it.
list_events_next(t) ==
  /\ At(t, "list_events_next")
  /\ IF thread[t].pos < Len(MOCK_EVENTS)
     THEN LET e == MOCK_EVENTS[thread[t].pos + 1] IN
            /\ Goto(t, [thread[t] EXCEPT
                         !.pos = @ + 1,
                         !.owned = IF IsOwner(e, thread[t].user)
                                   THEN Append(@, Event(e)) ELSE @])
            /\ UNCHANGED resp
     ELSE /\ Respond("list_events", thread[t].req, Ok(thread[t].owned))
          /\ Goto(t, Idle)
  /\ UNCHANGED <<tables, issued, started>>

\* line 181: the size read.
create_event_size(t) ==
  /\ At(t, "create_event_size")
  /\ Goto(t, [thread[t] EXCEPT !.pc = "create_event_append",
                               !.id = NewEventId(MOCK_EVENTS)])
  /\ UNCHANGED <<tables, resp, issued, started>>

\* lines 182-196: the event is built and appended, and the response sent.
create_event_append(t) ==
  /\ At(t, "create_event_append")
  /\ LET event == NewEvent(EventCreate(thread[t].req.body), thread[t].user, thread[t].id)
     IN /\ MOCK_EVENTS' = Append(MOCK_EVENTS, event)
        /\ Respond("create_event", thread[t].req, Ok(event))
  /\ Goto(t, Idle)
  /\ UNCHANGED <<MOCK_USERS, MOCK_TOKENS, issued, started>>

-----------------------------------------------------------------------------
(* The service. *)

Init ==
  /\ MOCK_USERS = SeedUsers
  /\ MOCK_TOKENS = SeedTokens
  /\ MOCK_EVENTS = SeedEvents
  /\ thread = [t \in Threads |-> Idle]
  /\ resp = [n |-> 0, op |-> "start", req |-> None, result |-> Ok(None)]
  /\ issued = {}
  /\ started = 0

Next ==
  \/ \E t \in Threads, payload \in SignupPayloads : signup(t, payload)
  \/ \E t \in Threads : signup_size(t)
  \/ \E t \in Threads : signup_put_user(t)
  \/ \E t \in Threads : signup_put_token(t)
  \/ \E t \in Threads, payload \in LoginPayloads : login(t, payload)
  \/ \E t \in Threads : login_iter(t)
  \/ \E t \in Threads : login_next(t)
  \/ \E t \in Threads : login_put(t)
  \/ \E t \in Threads, authorization \in Headers : me(t, authorization)
  \/ \E t \in Threads : get_user(t)
  \/ \E t \in Threads : me_body(t)
  \/ \E t \in Threads, authorization \in Headers : list_events(t, authorization)
  \/ \E t \in Threads : list_events_next(t)
  \/ \E t \in Threads, authorization \in Headers, body \in EventBodies :
       create_event(t, authorization, body)
  \/ \E t \in Threads : create_event_size(t)
  \/ \E t \in Threads : create_event_append(t)

Spec == Init /\ [][Next]_vars

-----------------------------------------------------------------------------
(* Properties. *)

Bearer(token) == Some("Bearer " \o token)

SucceededAs(op) == resp.op = op /\ resp.result.ok

\* This step sends a response.
Responded == resp'.n = resp.n + 1

\* This step is thread t's step from pc, and it ends the call.
Returns(t, pc) == thread[t].pc = pc /\ thread'[t] = Idle

\* This step is thread t's step from one position to another.
Moves(t, from, to) == thread[t].pc = from /\ thread'[t].pc = to

\* The dependency's answer for a header when no write falls between its two
\* reads.
Resolve(authorization) ==
  LET email == TokenEmail(MOCK_TOKENS, authorization) IN
    IF email.ok THEN EmailUser(MOCK_USERS, email.value) ELSE email

\* The dependency of thread t's request: the email is the one the token table
\* holds for the header's token when it is read, the user record the one the
\* user table holds for that email when it is read.
Header(req) == IF DOMAIN req = {"authorization", "body"} THEN req.authorization ELSE req

DependsStep(t, op) ==
  /\ (Moves(t, "idle", "get_user") /\ thread'[t].op = op) =>
       Some(thread'[t].email)
         = TokensGet(MOCK_TOKENS, BearerToken(Header(thread'[t].req)[1]))
  /\ (thread[t].pc = "get_user" /\ thread[t].op = op /\ thread'[t] # thread[t]) =>
       /\ thread'[t].pc = Route(op)
       /\ thread'[t].user = MOCK_USERS[thread[t].email]

ResolvesTo(a) ==
  LET auth == Resolve(Bearer(a.token)) IN
    /\ auth.ok
    /\ MeBody(auth.value) = [name |-> a.name, email |-> a.email, userId |-> a.userId]

\* C1: the token table holds each token once, and every token returned by
\* signup or login resolves to the name, email and userId it was returned with.
C1_TokenResolvesToOwner ==
  /\ \A i, j \in 1..Len(MOCK_TOKENS) :
       MOCK_TOKENS[i].token = MOCK_TOKENS[j].token => i = j
  /\ \A a \in issued : ResolvesTo(a)

C2_Step ==
  /\ \A e \in DOMAIN MOCK_USERS :
       e \in DOMAIN MOCK_USERS' /\ MOCK_USERS'[e] = MOCK_USERS[e]
  /\ (Responded /\ resp'.op = "signup" /\ ~resp'.result.ok) =>
       /\ resp'.result.status = 400
       /\ UNCHANGED tables
  /\ \A t \in Threads :
       Moves(t, "idle", "signup_size") =>
         thread'[t].req.email \notin DOMAIN MOCK_USERS

\* C2: a signup whose email is in the user table answers 400 and changes no
\* table, and no step overwrites the record stored for an email.
C2_DuplicateSignupConflicts == [][C2_Step]_vars

\* C3: a successful login returns the token of every credentials bundle
\* returned before for that email (signup's token for a signed-up user).
C3_LoginTokenReuse ==
  SucceededAs("login") =>
    \A a \in issued : a.email = resp.req.email => a.token = resp.result.value.token

\* The stored events a user owns, in order, and the positions of those among
\* them that a create_event call (not the seed data) put there.
OwnedBy(userId) == SelectSeq(MOCK_EVENTS, LAMBDA e : e.ownerId = userId)

CreatedBy(userId) ==
  {i \in (Len(SeedEvents) + 1)..Len(MOCK_EVENTS) : MOCK_EVENTS[i].ownerId = userId}

ListStep(t) ==
  /\ DependsStep(t, "list_events")
  /\ Returns(t, "list_events_next") =>
       /\ Responded /\ resp'.op = "list_events"
       /\ resp'.result.value = OwnedBy(thread[t].user.id)
       /\ \A k \in 1..Len(resp'.result.value) :
            resp'.result.value[k].ownerId = thread[t].user.id
       /\ (\A i \in 1..Len(MOCK_EVENTS) : MOCK_EVENTS[i].ownerId # thread[t].user.id)
            => resp'.result.value = << >>
       /\ thread[t].user.id = "u_demo_1" => Head(resp'.result.value) = SeedEvents[1]

\* C4 as stated: the listing is the caller's owned events in insertion order,
\* and it is empty for a user who has created no events.
C4_EmptyForNonCreators ==
  [][\A t \in Threads :
       Returns(t, "list_events_next") =>
         /\ resp'.result.value = OwnedBy(thread[t].user.id)
         /\ CreatedBy(thread[t].user.id) = {} => resp'.result.value = << >>]_vars

\* C4 amended: the listing is the stored events that carry as owner the id of
\* the user record the dependency fetched for the token, in insertion order,
\* as the list stands when the scan ends; no event with another owner id is in
\* it; it is empty when no stored event carries that id (the seed user's
\* listing starts with the seed event).
C4_ListEventsOwned == [][\A t \in Threads : ListStep(t)]_vars

C4_Witness ==
  /\ SucceededAs("list_events")
  /\ resp.req = Bearer("mocktoken_u_2")
  /\ Len(resp.result.value) = 1
  /\ resp.result.value[1] = MOCK_EVENTS[2]
  /\ Len(MOCK_EVENTS) = 2

\* Request bodies beyond those the clients of the model send.
MoreEventBodies ==
  EventBodies \cup
  { [name |-> "Nulls", date |-> "x", budget |-> None, event_type |-> None,
     allow_wishlists |-> None, collect_addresses |-> None, custom_message |-> None],
    [name |-> "Set", date |-> "y", participants |-> <<"Zed">>,
     event_type |-> Some("White Elephant"), allow_wishlists |-> Some(TRUE),
     collect_addresses |-> Some(TRUE), status |-> "closed", ownerId |-> "u_2"],
    [name |-> "Blank", date |-> "", participants |-> << >>, event_type |-> Some("")] }

Unset(body, f) == Field(body, f, None) = None

CreatedAsSpecified(body, user, e) ==
  /\ e.status = "draft"
  /\ e.ownerId = user.id
  /\ e.name = body.name /\ e.date = body.date
  /\ Unset(body, "event_type") => e.event_type = Some("Secret Santa")
  /\ Unset(body, "allow_wishlists") => e.allow_wishlists = Some(TRUE)
  /\ Unset(body, "collect_addresses") => e.collect_addresses = Some(FALSE)
  /\ "participants" \notin DOMAIN body => e.participants = << >>

CreateStep(t) ==
  /\ DependsStep(t, "create_event")
  /\ Returns(t, "create_event_append") =>
       /\ Responded /\ resp'.op = "create_event" /\ resp'.result.ok
       /\ CreatedAsSpecified(thread[t].req.body, thread[t].user, resp'.result.value)
       /\ MOCK_EVENTS' = Append(MOCK_EVENTS, resp'.result.value)

CreateAnyBody ==
  \A body \in MoreEventBodies : \A email \in DOMAIN MOCK_USERS :
    CreatedAsSpecified(body, MOCK_USERS[email],
      NewEvent(EventCreate(body), MOCK_USERS[email], NewEventId(MOCK_EVENTS)))

\* C5: create_event stores and returns an event with status "draft" and the
\* authenticated caller as owner whatever the body supplies, with the defaults
\* for unset or null optional fields, appended as the last element of the list.
C5_CreateEventDefaults ==
  []CreateAnyBody /\ [][\A t \in Threads : CreateStep(t)]_vars

C5_Witness ==
  /\ SucceededAs("create_event")
  /\ Field(resp.req.body, "status", "") = "active"
  /\ Field(resp.req.body, "ownerId", "") = "u_demo_1"
  /\ resp.result.value.ownerId = "u_2"
  /\ resp.result.value.event_type = Some("Secret Santa")
  /\ MOCK_EVENTS[Len(MOCK_EVENTS)] = resp.result.value

\* C6: no two user records share an id and no two events share an id.
C6_IdentifiersUnique ==
  /\ \A e1, e2 \in DOMAIN MOCK_USERS :
       MOCK_USERS[e1].id = MOCK_USERS[e2].id => e1 = e2
  /\ \A i, j \in 1..Len(MOCK_EVENTS) :
       MOCK_EVENTS[i].id = MOCK_EVENTS[j].id => i = j

C7_Step ==
  /\ (Responded /\ ~resp'.result.ok) => UNCHANGED tables
  /\ tables' # tables =>
       \E t \in Threads :
         /\ thread'[t] # thread[t]
         /\ \/ Moves(t, "signup_put_user", "signup_put_token")
            \/ /\ thread[t].pc \in {"signup_put_token", "login_put", "create_event_append"}
               /\ Responded /\ resp'.result.ok
  /\ \A t \in Threads :
       /\ Moves(t, "idle", "login_iter") =>
            /\ thread'[t].req.email \in DOMAIN MOCK_USERS
            /\ MOCK_USERS[thread'[t].req.email].password = thread'[t].req.password
       /\ Moves(t, "idle", "get_user") =>
            LET h == Header(thread'[t].req) IN
              ~IsNone(h) /\ BearerToken(h[1]) \in TokenKeys(MOCK_TOKENS)
       /\ (thread[t].pc = "get_user" /\ thread'[t] # thread[t]) =>
            thread[t].email \in DOMAIN MOCK_USERS
       /\ Returns(t, "signup_put_token") =>
            /\ resp'.result.ok
            /\ thread[t].req.email \in DOMAIN MOCK_USERS'
            /\ TokensGet(MOCK_TOKENS', resp'.result.value.token)
                 = Some(thread[t].req.email)
  /\ (Responded /\ resp'.op = "signup" /\ ~resp'.result.ok) => resp'.result.status = 400
  /\ (Responded /\ resp'.op \in {"me", "list_events", "create_event"}
        /\ ~resp'.result.ok) => resp'.result.status = 401

\* C7: a step that answers with an error changes no table, and a table is
\* changed only by a call that goes on to answer 200; an unknown email or
\* wrong password stops login, a missing header or unknown token stops the
\* identity-scoped requests, before the route function runs; a signup that
\* answers 200 has stored its user record and its token.
C7_FailuresMutateNothing == [][C7_Step]_vars

C7_Witness ==
  /\ resp.op = "login"
  /\ resp.result.status = 401
  /\ resp.req.email = DemoEmail
  /\ Len(MOCK_TOKENS) = 1
  /\ Len(MOCK_EVENTS) = 2

StartsWith(s, p) == Len(s) >= Len(p) /\ SubSeq(s, 1, Len(p)) = p

ClaimedToken(h) == IF StartsWith(h, "Bearer ") THEN SubSeq(h, 8, Len(h)) ELSE h

\* C8: a header is accepted only if its value less a leading "Bearer " prefix
\* (the value itself when it does not start with the prefix) is a key of the
\* token table.
C8_OnlyLeadingPrefixStripped ==
  \A t \in Threads :
    thread[t].pc \in {"me_body", "list_events_next"} =>
      /\ ~IsNone(thread[t].req)
      /\ ClaimedToken(thread[t].req[1]) \in TokenKeys(MOCK_TOKENS)

Numerals == <<"1", "2", "3", "4", "5", "6", "7", "8", "9">>

C9_Step(t) ==
  /\ (thread[t].pc = "signup_size" /\ thread'[t] # thread[t]) =>
       /\ thread'[t].id = "u_" \o Numerals[Cardinality(DOMAIN MOCK_USERS) + 1]
       /\ MOCK_USERS = SeedUsers => thread'[t].id = "u_2"
  /\ (thread[t].pc = "signup_put_user" /\ thread'[t] # thread[t]) =>
       MOCK_USERS'[thread[t].req.email].id = thread[t].id
  /\ Returns(t, "signup_put_token") =>
       /\ resp'.result.value.userId = thread[t].id
       /\ resp'.result.value.token = "mocktoken_" \o thread[t].id
  /\ (thread[t].pc = "create_event_size" /\ thread'[t] # thread[t]) =>
       /\ thread'[t].id = "evt_" \o Numerals[Len(MOCK_EVENTS) + 1]
       /\ MOCK_EVENTS = SeedEvents => thread'[t].id = "evt_2"
  /\ Returns(t, "create_event_append") => resp'.result.value.id = thread[t].id

\* C9: signup returns u_<n> and mocktoken_u_<n>, n one more than the number of
\* users stored when the call reads the table size; create_event returns
\* evt_<n>, n one more than the number of events stored when the call reads
\* the list size; from the seed tables these are u_2 and evt_2.
C9_IdsFromCollectionSize == [][\A t \in Threads : C9_Step(t)]_vars

C9_Witness ==
  /\ SucceededAs("create_event")
  /\ resp.result.value.id = "evt_2"
  /\ resp.result.value.ownerId = "u_3"
  /\ \E a \in issued : a.userId = "u_2" /\ a.token = "mocktoken_u_2"

\* C10: two signups with distinct emails, their statements interleaved in any
\* order, get distinct ids and distinct tokens, and each token resolves to the
\* user it was returned to.
C10_AnyInterleaving ==
  \A a, b \in issued :
    a.email # b.email =>
      /\ a.userId # b.userId
      /\ a.token # b.token
      /\ ResolvesTo(a) /\ ResolvesTo(b)

====
